---- MODULE Spec2Model ----
(***************************************************************************)
(* A model of oop.h (RBS Object Oriented SQF Scripting, v1.3.1).           *)
(*                                                                         *)
(* The header rewrites a class body into one dispatcher per class: a code  *)
(* value stored in NAMESPACE under the class name, made of the control     *)
(* operations "new" / "delete" / "static" followed by a chain of           *)
(* "if (guard) exitWith {handler}" statements in declaration order and,    *)
(* last, the forwarding to the parent class (FINALIZE_CLASS).              *)
(*                                                                         *)
(* Host-language facts the macros rest on, modelled as SQF defines them:   *)
(*   - "==" on strings ignores letter case;                                *)
(*   - typeName returns upper-case tags ("SCALAR", "STRING", ...);         *)
(*   - setVariable returns nothing; setVariable [k, nil] removes k;        *)
(*   - "call" runs the callee in a child scope of the caller, so a local   *)
(*     variable the callee does not declare private resolves to the        *)
(*     caller's (the dispatcher declares _objParentClass private only in   *)
(*     CLASS_EXTENDS);                                                     *)
(*   - format prints a number with 6 significant digits.                   *)
(***************************************************************************)
EXTENDS Integers, Sequences, FiniteSets, TLC

VARIABLES
    reg,      \* class name -> which definition of the catalog is registered
    store,    \* NAMESPACE: variable name -> value (absent names are nil)
    handles,  \* the instance handles "new" has returned, in order
    last,     \* the call in progress: its inputs, result and dispatch trace
    hist,     \* history: (owner, variable member) -> argument of its last write
    incs,     \* history: the "increment" calls through handles that ran a handler
    deleted,  \* history: the handles "delete" has been called with
    tasks     \* the spawned scripts: where each one stands, what it holds

vars == <<reg, store, handles, last, hist, incs, deleted, tasks>>

----------------------------------------------------------------------------
(* Bounds of the model *)

\* instance handles created in one run
MaxNew == 2
\* instance handles created in a run that exercises the guard chains
MaxObj == 1
\* largest scalar passed as an argument
MaxVal == 2

----------------------------------------------------------------------------
(* Values *)

\* nil: the absent value; its type tag is "" (line 138)
Nil == [t |-> "", v |-> 0]
Num(n) == [t |-> "SCALAR", v |-> n]
Str(n) == [t |-> "STRING", v |-> n]
\* what a function handler of the examples returns when it has done its work
Done == [t |-> "BOOL", v |-> 1]

\* access levels
PUBLIC == 0
PROTECTED == 1
PRIVATE == 2

\* isNil "_objParentClass"
NilScope == "<nil>"

\* letter-case folding, on the strings of this model that have upper-case letters
LowerCase ==
    [s \in {"SCALAR", "STRING", "BOOL", "ANY", "ACT"} |->
        CASE s = "SCALAR" -> "scalar"
          [] s = "STRING" -> "string"
          [] s = "BOOL" -> "bool"
          [] s = "ANY" -> "any"
          [] s = "ACT" -> "act"]

Lower(s) == IF s \in DOMAIN LowerCase THEN LowerCase[s] ELSE s

\* SQF's == on strings
SqfEq(a, b) == Lower(a) = Lower(b)

----------------------------------------------------------------------------
(* Class bodies.  A guard is one "ACCESS MEMBER-MACRO" line of a class body:
   lvl is the access macro, kind the member macro (fn: FUNCTION, var:
   VARIABLE, svar: STATIC_VARIABLE), type and name its two parameters.  A
   function's handler is user code; body names which of the handler shapes
   of the header's examples it is, and ref the variable that shape names:
     done    a handler that calls no member                      {...; true}
     getvar  FUNC_GETVAR(ref)                                    (line 379)
     setvar  {MEMBER(ref, _this)}                                (lines 44-46)
     delvar  {DELETE_VARIABLE(ref)}                              (line 48)
     inc     read ref, take nil as 0, add 1, write it back and
             return the new number                               (lines 38-41)
     incvar  {INC_VAR(ref)}                                      (line 414) *)

Guard(lvl, kind, type, name, body, ref) ==
    [lvl |-> lvl, kind |-> kind, type |-> type, name |-> name,
     body |-> body, ref |-> ref]

Fn(lvl, type, name, body, ref) == Guard(lvl, "fn", type, name, body, ref)
Var(lvl, type, name) == Guard(lvl, "var", type, name, "", name)
SVar(lvl, type, name) == Guard(lvl, "svar", type, name, "", name)

\* CLASS("Base")
BaseV1 ==
    [ext |-> FALSE, parent |-> NilScope, guards |-> <<
        Fn(PUBLIC, "ANY", "act", "done", ""),
        Fn(PUBLIC, "scalar", "act", "done", ""),
        Fn(PROTECTED, "", "guarded", "done", ""),
        Fn(PRIVATE, "scalar", "secret", "done", ""),
        Var(PRIVATE, "scalar", "hp"),
        SVar(PROTECTED, "string", "tag"),
        Fn(PUBLIC, "scalar", "constructor", "setvar", "hp"),
        Fn(PUBLIC, "", "getHp", "getvar", "hp"),
        Fn(PUBLIC, "string", "deconstructor", "delvar", "hp") >>]

\* CLASS("Base") written again, the two "act" guards in the other order
BaseV2 ==
    [ext |-> FALSE, parent |-> NilScope, guards |-> <<
        Fn(PUBLIC, "scalar", "act", "done", ""),
        Fn(PUBLIC, "ANY", "act", "done", ""),
        Var(PRIVATE, "scalar", "hp"),
        Fn(PUBLIC, "", "getHp", "getvar", "hp") >>]

\* CLASS_EXTENDS("Child", "Base")
ChildV1 ==
    [ext |-> TRUE, parent |-> "Base", guards |-> <<
        Var(PUBLIC, "scalar", "mp"),
        Fn(PUBLIC, "string", "act", "done", ""),
        Fn(PRIVATE, "", "secret", "done", ""),
        Fn(PUBLIC, "", "dropMp", "delvar", "mp") >>]

\* CLASS("Counter"): the counting class of the examples
CounterV1 ==
    [ext |-> FALSE, parent |-> NilScope, guards |-> <<
        SVar(PRIVATE, "scalar", "count"),
        Fn(PUBLIC, "", "increment", "inc", "count"),
        Fn(PUBLIC, "", "bump", "incvar", "count") >>]

\* CLASS_EXTENDS("Kid", "Child"): a variable named like a Private one of
\* Base, and a method that reads the static variable of Base
KidV1 ==
    [ext |-> TRUE, parent |-> "Child", guards |-> <<
        Var(PUBLIC, "scalar", "hp"),
        Fn(PUBLIC, "", "getTag", "getvar", "tag") >>]

\* CLASS_EXTENDS("Orphan", "Ghost"), no class "Ghost" being registered
OrphanV1 ==
    [ext |-> TRUE, parent |-> "Ghost", guards |-> <<
        Fn(PUBLIC, "scalar", "act", "done", "") >>]

\* CLASS_EXTENDS("Loop", "Loop"): a class that names itself as parent
LoopV1 ==
    [ext |-> TRUE, parent |-> "Loop", guards |-> <<
        Fn(PUBLIC, "scalar", "act", "done", "") >>]

Catalog ==
    [Base |-> <<BaseV1, BaseV2>>,
     Child |-> <<ChildV1>>,
     Counter |-> <<CounterV1>>,
     Kid |-> <<KidV1>>,
     Orphan |-> <<OrphanV1>>,
     Loop |-> <<LoopV1>>]

ClassNames == DOMAIN Catalog

\* a class name bound for good to the code value first stored under it
ClassDef_first(rg, c) == Catalog[c][1]

\* the code value registered under className
ClassDef(rg, c) == Catalog[c][rg[c]]

----------------------------------------------------------------------------
(* The storage namespace *)

\* space getVariable [k, nil]
GetVar(st, k) == IF k \in DOMAIN st THEN st[k] ELSE Nil

\* space setVariable [k, v]: nil removes the variable
SetVar(st, k, v) ==
    IF v = Nil
    THEN [x \in DOMAIN st \ {k} |-> st[x]]
    ELSE [x \in DOMAIN st \cup {k} |-> IF x = k THEN v ELSE st[x]]

\* format ["%1_%2", a, b] on two strings
Format2(a, b) == a \o "_" \o b

----------------------------------------------------------------------------
(* format "%1" of a number: SQF prints 6 significant digits, so a whole
   number below 1e6 prints as its digits and one from 1e6 on in exponent
   form ("1e+006", "1.00001e+006", ...).  Modelled below 1e7. *)

\* the first number format does not print digit by digit
SixDigits == 1000000

RECURSIVE StripZeros(_)
StripZeros(n) == IF n > 0 /\ n % 10 = 0 THEN StripZeros(n \div 10) ELSE n

RECURSIVE Digits(_)
Digits(n) == IF n < 10 THEN 1 ELSE 1 + Digits(n \div 10)

RECURSIVE Pow10(_)
Pow10(k) == IF k = 0 THEN 1 ELSE 10 * Pow10(k - 1)

\* the k low digits of n, with their leading zeros
RECURSIVE LowDigits(_, _)
LowDigits(n, k) ==
    IF k = 0 THEN "" ELSE LowDigits(n \div 10, k - 1) \o ToString(n % 10)

FormatNum(n) ==
    IF n < SixDigits
    THEN ToString(n)
    ELSE LET q == n \div 10
             r == n % 10
             \* the 6 digits kept, the 7th rounded to nearest (ties to even)
             m == IF r > 5 \/ (r = 5 /\ q % 2 = 1) THEN q + 1 ELSE q
             e == IF m >= SixDigits THEN "e+007" ELSE "e+006"
             sig == StripZeros(m)
             k == Digits(sig) - 1
         IN  IF k = 0
             THEN ToString(sig) \o e
             ELSE ToString(sig \div Pow10(k)) \o "." \o LowDigits(sig, k) \o e

----------------------------------------------------------------------------
(* Internal macros *)

\* AUTO_INC_VAR(className)
AUTO_INC_VAR(c) == Format2(c, "IDAI")

\* GET_AUTO_INC(className)
GET_AUTO_INC(st, c) ==
    IF AUTO_INC_VAR(c) \in DOMAIN st THEN st[AUTO_INC_VAR(c)].v ELSE 0

\* an instance variable keyed by the class
GETVAR_perClass(q, name) == Format2(q.cls, name)

\* GETVAR(var): keyed by _objClassID
GETVAR(q, name) == Format2(q.id, name)

\* a static variable keyed by the instance
GETSVAR_perInstance(q, name) == Format2(q.id, name)

\* GETSVAR(var): keyed by _objClass
GETSVAR(q, name) == Format2(q.cls, name)

\* _objArgType
ArgType(arg) == arg.t

\* CHECK_ACCESS(lvl)
CHECK_ACCESS(q, lvl) == q.acc >= lvl

\* CHECK_TYPE(typeStr)
CHECK_TYPE(q, typeStr) == SqfEq(ArgType(q.arg), typeStr) \/ SqfEq(typeStr, "ANY")

\* CHECK_NIL
CHECK_NIL(q) == SqfEq(ArgType(q.arg), "")

\* CHECK_MEMBER(name)
CHECK_MEMBER(q, name) == SqfEq(q.m, name)

\* a variable guard that asks for the declared type even of an absent argument
CHECK_VAR_typed(q, typeStr, name) == CHECK_MEMBER(q, name) /\ CHECK_TYPE(q, typeStr)

\* CHECK_VAR(typeStr, varName)
CHECK_VAR(q, typeStr, name) ==
    CHECK_MEMBER(q, name) /\ (CHECK_TYPE(q, typeStr) \/ CHECK_NIL(q))

\* the condition of the "if" a guard line expands to
Matches(q, g) ==
    /\ CHECK_ACCESS(q, g.lvl)
    /\ IF g.kind = "fn"
       THEN CHECK_MEMBER(q, g.name) /\ CHECK_TYPE(q, g.type)
       ELSE CHECK_VAR(q, g.type, g.name)

\* the guard chain from guard k on: each "if (...) exitWith {...}" is tried
\* in the order the class body declares them, and the first one whose
\* condition holds ends the dispatcher (0: every "if" was false)
RECURSIVE RunChain(_, _, _)
RunChain(q, guards, k) ==
    IF k > Len(guards) THEN 0
    ELSE IF Matches(q, guards[k]) THEN k
    ELSE RunChain(q, guards, k + 1)

\* a chain that lets the last matching guard win
FirstMatch_last(q, guards) ==
    IF \E k \in 1..Len(guards) : Matches(q, guards[k])
    THEN CHOOSE k \in 1..Len(guards) :
            /\ Matches(q, guards[k])
            /\ \A j \in (k + 1)..Len(guards) : ~Matches(q, guards[j])
    ELSE 0

FirstMatch(q, guards) == RunChain(q, guards, 1)

----------------------------------------------------------------------------
(* One run of a dispatcher.

   A call q is [cls, via, id, m, arg, acc, scope]: the class whose dispatcher
   runs, how it was reached (entry: called from outside, fwd: FINALIZE_CLASS,
   member: MEMBER), the array [_objClassID, _objMember, _this, _objAccess] it
   was called with, and scope, the value of _objParentClass in the caller's
   scope (NilScope when the caller has none).

   A run returns [res, st, div, tr]: its value, the namespace after it,
   whether it never returns (the parent chain re-enters a call it is already
   in, with nothing changed in between), and tr, one entry per dispatcher
   run, in call order. *)

Call(cls, via, id, m, arg, acc, scope) ==
    [cls |-> cls, via |-> via, id |-> id, m |-> m, arg |-> arg,
     acc |-> acc, scope |-> scope]

Out(res, st, div, tr) == [res |-> res, st |-> st, div |-> div, tr |-> tr]

\* a trace entry: the call, the guard that matched (hit, 0: none; kind and
\* name are that guard's), what the run returned
Entry(q, hit, g, res, div) ==
    [cls |-> q.cls, via |-> q.via, id |-> q.id, m |-> q.m, arg |-> q.arg,
     acc |-> q.acc, scope |-> q.scope, hit |-> hit, kind |-> g.kind,
     name |-> g.name, lvl |-> g.lvl, res |-> res, div |-> div]

\* no guard matched
NoGuard == [kind |-> "none", name |-> "", lvl |-> 0]

\* the trace entry of a DELETE_VARIABLE(name) in a handler of q
Deleted(q, name) ==
    [cls |-> q.cls, via |-> "delete", id |-> q.id, m |-> name, arg |-> Nil,
     acc |-> q.acc, scope |-> q.scope, hit |-> 0, kind |-> "del",
     name |-> name, lvl |-> 0, res |-> Nil, div |-> FALSE]

\* _objParentClass as the dispatcher of a class sees it after its header:
\* CLASS_EXTENDS declares it private, CLASS leaves the caller's in sight
ParentInScope(d, q) == IF d.ext THEN d.parent ELSE q.scope

\* a CALLCLASS that passes the class called in place of _objClassID
CALLCLASS_classId(q, via, className, member, args, access, scope) ==
    Call(className, via, className, member, args, access, scope)

\* CALLCLASS(className, member, args, access) from inside the run of q
CALLCLASS(q, via, className, member, args, access, scope) ==
    Call(className, via, q.id, member, args, access, scope)

\* a MEMBER that asks as a caller from outside would
MEMBER_outside(q, memberStr, args, scope) ==
    CALLCLASS(q, "member", q.cls, memberStr, args, PUBLIC, scope)

\* MEMBER(memberStr, args) from a handler of q
MEMBER(q, memberStr, args, scope) ==
    CALLCLASS(q, "member", q.cls, memberStr, args, PRIVATE, scope)

\* a variable that keeps the first value written to it
VAR_DFT_FUNC_first(st, q, name) ==
    IF q.arg = Nil
    THEN Out(GetVar(st, GETVAR(q, name)), st, FALSE, <<>>)
    ELSE IF GetVar(st, GETVAR(q, name)) # Nil
    THEN Out(Nil, st, FALSE, <<>>)
    ELSE Out(Nil, SetVar(st, GETVAR(q, name), q.arg), FALSE, <<>>)

\* a variable whose write is lost
VAR_DFT_FUNC_lost(st, q, name) ==
    IF q.arg = Nil
    THEN Out(GetVar(st, GETVAR(q, name)), st, FALSE, <<>>)
    ELSE Out(Nil, st, FALSE, <<>>)

\* VAR_DFT_FUNC(varName, space)
VAR_DFT_FUNC(st, q, name) ==
    IF q.arg = Nil
    THEN Out(GetVar(st, GETVAR(q, name)), st, FALSE, <<>>)
    ELSE Out(Nil, SetVar(st, GETVAR(q, name), q.arg), FALSE, <<>>)

\* SVAR_DFT_FUNC(varName, space)
SVAR_DFT_FUNC(st, q, name) ==
    IF q.arg = Nil
    THEN Out(GetVar(st, GETSVAR(q, name)), st, FALSE, <<>>)
    ELSE Out(Nil, SetVar(st, GETSVAR(q, name), q.arg), FALSE, <<>>)

\* VAR_DELETE(varName, space)
VAR_DELETE(st, q, name) ==
    Out(Nil, SetVar(st, GETVAR(q, name), Nil), FALSE, <<Deleted(q, name)>>)

\* a sum that adds the amount twice
ADD_VAR_twice(rd, value) ==
    IF rd.t = "SCALAR" THEN [t |-> "SCALAR", v |-> rd.v + value + value] ELSE Nil

\* ADD_VAR(varName, value): the argument of the outer MEMBER of MOD_VAR, rd
\* being what the inner MEMBER(varName, nil) returned (a sum with nil is nil)
ADD_VAR(rd, value) ==
    IF rd.t = "SCALAR" THEN [t |-> "SCALAR", v |-> rd.v + value] ELSE Nil

\* INC_VAR(varName)
INC_VAR(rd) == ADD_VAR(rd, 1)

RECURSIVE Invoke(_, _, _, _)
RECURSIVE RunHandler(_, _, _, _, _)

\* the handler of guard g, run for call q with _objParentClass = scope
RunHandler(rg, st, q, g, scope) ==
    CASE g.kind = "var" -> VAR_DFT_FUNC(st, q, g.name)
      [] g.kind = "svar" -> SVAR_DFT_FUNC(st, q, g.name)
      [] g.body = "done" -> Out(Done, st, FALSE, <<>>)
      [] g.body = "getvar" -> Invoke(rg, st, MEMBER(q, g.ref, Nil, scope), {})
      [] g.body = "setvar" -> Invoke(rg, st, MEMBER(q, g.ref, q.arg, scope), {})
      [] g.body = "delvar" -> VAR_DELETE(st, q, g.ref)
      [] g.body = "inc" ->
            LET rd == Invoke(rg, st, MEMBER(q, g.ref, Nil, scope), {})
                n == (IF rd.res = Nil THEN 0 ELSE rd.res.v) + 1
                wr == Invoke(rg, rd.st, MEMBER(q, g.ref, Num(n), scope), {})
            IN  IF rd.div
                THEN rd
                ELSE Out(Num(n), wr.st, wr.div, rd.tr \o wr.tr)
      [] g.body = "incvar" ->
            \* MOD_VAR: MEMBER(ref, MEMBER(ref, nil) + 1)
            LET rd == Invoke(rg, st, MEMBER(q, g.ref, Nil, scope), {})
                wr == Invoke(rg, rd.st, MEMBER(q, g.ref, INC_VAR(rd.res), scope), {})
            IN  IF rd.div
                THEN rd
                ELSE Out(wr.res, wr.st, wr.div, rd.tr \o wr.tr)

\* the dispatcher registered under q.cls, called with q; seen holds the
\* forwarded calls this one was reached through
Invoke(rg, st, q, seen) ==
    IF q.cls \notin ClassNames
    THEN \* GETCLASS: no such variable, the default {nil} runs
         Out(Nil, st, FALSE, <<Entry(q, 0, NoGuard, Nil, FALSE)>>)
    ELSE IF q.id = "" \/ q.m = ""
    THEN Out(Nil, st, FALSE, <<Entry(q, 0, NoGuard, Nil, FALSE)>>)
    ELSE LET d == ClassDef(rg, q.cls)
             scope == ParentInScope(d, q)
             k == FirstMatch(q, d.guards)
         IN  IF k # 0
             THEN LET h == RunHandler(rg, st, q, d.guards[k], scope)
                  IN  Out(h.res, h.st, h.div,
                          <<Entry(q, k, d.guards[k], h.res, h.div)>> \o h.tr)
             ELSE IF scope = NilScope
             THEN Out(Nil, st, FALSE, <<Entry(q, 0, NoGuard, Nil, FALSE)>>)
             ELSE \* FINALIZE_CLASS
                  LET up == CALLCLASS(q, "fwd", scope, q.m, q.arg, PROTECTED, scope)
                  IN  IF up \in seen \cup {q}
                      THEN Out(Nil, st, TRUE, <<Entry(q, 0, NoGuard, Nil, TRUE)>>)
                      ELSE LET f == Invoke(rg, st, up, seen \cup {q})
                           IN  Out(f.res, f.st, f.div,
                                   <<Entry(q, 0, NoGuard, f.res, f.div)>> \o f.tr)

----------------------------------------------------------------------------
(* History of the variable members, kept from what the dispatch traces show
   (which guard ran for which owner with which argument), not from the
   namespace: a write is a run of a variable guard with a present argument;
   its owner is the instance identifier for VARIABLE and the class for
   STATIC_VARIABLE.  DELETE_VARIABLE takes the variable back to "never
   written". *)

Slot(e) == IF e.kind = "svar" THEN <<"class", e.cls, e.name>>
           ELSE <<"instance", e.id, e.name>>

IsWrite(e) == e.kind \in {"var", "svar"} /\ e.arg # Nil
IsRead(e) == e.kind \in {"var", "svar"} /\ e.arg = Nil

HistGet(h, s) == IF s \in DOMAIN h THEN h[s] ELSE Nil

HistSet(h, s, v) ==
    IF v = Nil
    THEN [x \in DOMAIN h \ {s} |-> h[x]]
    ELSE [x \in DOMAIN h \cup {s} |-> IF x = s THEN v ELSE h[x]]

RECURSIVE Replay(_, _)
Replay(h, tr) ==
    IF tr = <<>>
    THEN h
    ELSE LET e == Head(tr)
             h1 == IF IsWrite(e) THEN HistSet(h, Slot(e), e.arg)
                   ELSE IF e.kind = "del" THEN HistSet(h, Slot(e), Nil)
                   ELSE h
         IN  Replay(h1, Tail(tr))

----------------------------------------------------------------------------
(* The state machine: scripts that register classes and call them *)

NoVars == [x \in {} |-> Nil]

\* the scripts a program spawns next to its main script
Tasks == {"T1", "T2"}

\* a script not spawned yet: pc is the statement it stands before, kind what
\* it was spawned to do, cls / id the dispatcher and identifier it runs with,
\* ref the variable member it works on, rd the value it has read, lap whether the other script stood between its
\* own read and write at that moment, made the identifier it minted
NoTask ==
    [pc |-> "idle", kind |-> "", cls |-> "", id |-> "", ref |-> "",
     rd |-> Nil, lap |-> FALSE, made |-> ""]

\* no call in progress
Idle ==
    [op |-> "none", cls |-> "", id |-> "", m |-> "", arg |-> Nil, acc |-> 0,
     scope |-> NilScope, res |-> Nil, div |-> FALSE, tr |-> <<>>,
     pre |-> NoVars, hpre |-> NoVars, made |-> "", by |-> 0]

\* a call on class q.cls as its caller sees it: the result r, the namespace
\* and the history before it, the identifier a "new" made, the handle used
Seen(op, q, r, made, by) ==
    [op |-> op, cls |-> q.cls, id |-> q.id, m |-> q.m, arg |-> q.arg,
     acc |-> q.acc, scope |-> q.scope, res |-> r.res, div |-> r.div,
     tr |-> r.tr, pre |-> store, hpre |-> hist, made |-> made, by |-> by]

\* scalars a variable member may hold in this model (the per-class counters
\* are bounded by the number of handles)
Bounded(st) ==
    \A k \in DOMAIN st :
        \/ \E c \in ClassNames : k = AUTO_INC_VAR(c)
        \/ st[k].t # "SCALAR"
        \/ st[k].v <= MaxVal + 1

\* what every call does to the state, r being the dispatcher's run
Effect(op, q, r, made, by) ==
    /\ Bounded(r.st)
    /\ store' = r.st
    /\ hist' = Replay(hist, r.tr)
    /\ last' = Seen(op, q, r, made, by)
    /\ incs' = IF op = "handle" /\ q.m = "increment" /\ r.tr[1].hit # 0
               THEN Append(incs, [by |-> by, res |-> r.res])
               ELSE incs
    /\ deleted' = IF op = "delete" THEN deleted \cup {by} ELSE deleted
    /\ tasks' = tasks

\* CLASS / CLASS_EXTENDS ... ENDCLASS runs (again): NAMESPACE setVariable
Register(c, v) ==
    /\ last.op = "none"
    /\ reg[c] # v
    /\ reg' = [reg EXCEPT ![c] = v]
    /\ last' = [Idle EXCEPT !.op = "register", !.cls = c]
    /\ UNCHANGED <<store, handles, hist, incs, deleted, tasks>>

\* ["new", a] call c
New(c, a, sc, cap) ==
    /\ last.op = "none"
    /\ Len(handles) < cap
    /\ LET st1 == SetVar(store, AUTO_INC_VAR(c), Num(GET_AUTO_INC(store, c) + 1))
           id == Format2(c, FormatNum(GET_AUTO_INC(st1, c)))
           q == Call(c, "entry", id, "constructor", a, PUBLIC, sc)
           r == Invoke(reg, st1, q, {})
       IN  /\ Effect("new", q, r, id, 0)
           /\ handles' = IF r.div THEN handles
                         ELSE Append(handles, [cls |-> c, id |-> id])
    /\ UNCHANGED reg

\* ["delete", h, a] call c
Delete(c, i, a, sc) ==
    /\ last.op = "none"
    /\ LET h == handles[i]
           q == Call(h.cls, "entry", h.id, "deconstructor", a, PUBLIC, sc)
       IN  Effect("delete", q, Invoke(reg, store, q, {}), "", i)
    /\ UNCHANGED <<reg, handles>>

\* a "static" that asks with the access of the class's own methods
Static_full(c, m, a, sc) ==
    /\ last.op = "none"
    /\ LET q == Call(c, "entry", c, m, a, PRIVATE, sc)
       IN  Effect("static", q, Invoke(reg, store, q, {}), "", 0)
    /\ UNCHANGED <<reg, handles>>

\* ["static", m, a] call c
Static(c, m, a, sc) ==
    /\ last.op = "none"
    /\ LET q == Call(c, "entry", c, m, a, PUBLIC, sc)
       IN  Effect("static", q, Invoke(reg, store, q, {}), "", 0)
    /\ UNCHANGED <<reg, handles>>

\* a handle that "delete" has switched off
CallHandle_dead(i, m, a, sc) ==
    /\ last.op = "none"
    /\ LET h == handles[i]
           q == Call(h.cls, "entry", IF i \in deleted THEN "" ELSE h.id, m, a, PUBLIC, sc)
       IN  Effect("handle", q, Invoke(reg, store, q, {}), "", i)
    /\ UNCHANGED <<reg, handles>>

\* [m, a] call h, h an instance handle
CallHandle(i, m, a, sc) ==
    /\ last.op = "none"
    /\ LET h == handles[i]
           q == Call(h.cls, "entry", h.id, m, a, PUBLIC, sc)
       IN  Effect("handle", q, Invoke(reg, store, q, {}), "", i)
    /\ UNCHANGED <<reg, handles>>

\* [id, m, a, acc] call c, id the identifier of handle i: the dispatcher
\* called as the macros call it
CallClass(c, i, m, a, acc, sc) ==
    /\ last.op = "none"
    /\ LET q == Call(c, "entry", handles[i].id, m, a, acc, sc)
       IN  Effect("class", q, Invoke(reg, store, q, {}), "", i)
    /\ UNCHANGED <<reg, handles>>

\* ["", m, a] call c: the dispatcher called with an empty identifier
CallEmpty(c, m, a, sc) ==
    /\ last.op = "none"
    /\ LET q == Call(c, "entry", "", m, a, PUBLIC, sc)
       IN  Effect("class", q, Invoke(reg, store, q, {}), "", 0)
    /\ UNCHANGED <<reg, handles>>

\* the calling script goes on with the value it got; a call that never
\* returns has no next step
Return ==
    /\ last.op # "none"
    /\ ~last.div
    /\ last' = Idle
    /\ UNCHANGED <<reg, store, handles, hist, incs, deleted, tasks>>

\* the classes an instance of c is dispatched in: c and its ancestors
RECURSIVE Lineage(_, _)
Lineage(rg, c) ==
    IF c \notin ClassNames THEN {}
    ELSE IF ClassDef(rg, c).ext THEN {c} \cup Lineage(rg, ClassDef(rg, c).parent)
    ELSE {c}

InitWith(counts) ==
    /\ reg = [c \in ClassNames |-> 1]
    /\ \E n \in counts :
          store = SetVar(NoVars, AUTO_INC_VAR("Counter"),
                         IF n = 0 THEN Nil ELSE Num(n))
    /\ handles = <<>>
    /\ last = Idle
    /\ hist = NoVars
    /\ incs = <<>>
    /\ deleted = {}
    /\ tasks = [t \in Tasks |-> NoTask]

----------------------------------------------------------------------------
(* Scripts that exercise the guard chains of Base and Child *)

\* one argument of each type tag
TypeArgs == {Nil, Num(1), Str(1)}

\* the member names asked for: members of Base and Child, one in other
\* letter case, one no class declares
Members == {"act", "ACT", "guarded", "secret", "hp", "tag", "getHp", "mp", "nope"}

\* where a call is written: in a plain script, or in a method of a class
\* that extends Base (there _objParentClass is "Base")
Scopes == {NilScope, "Base"}

Init == InitWith({0})

Next ==
    \/ \E c \in ClassNames, v \in 1..2 : v <= Len(Catalog[c]) /\ Register(c, v)
    \/ \E c \in {"Base", "Child"}, a \in TypeArgs : New(c, a, NilScope, MaxObj)
    \/ \E i \in 1..Len(handles), m \in Members, a \in TypeArgs, sc \in Scopes :
          CallHandle(i, m, a, sc)
    \/ \E i \in 1..Len(handles), c \in ClassNames, m \in Members, a \in TypeArgs,
          acc \in PUBLIC..PRIVATE :
          c \in Lineage(reg, handles[i].cls) /\ CallClass(c, i, m, a, acc, NilScope)
    \/ Return

Spec == Init /\ [][Next]_vars

----------------------------------------------------------------------------
(* What the claims speak of *)

\* the call in progress is a member call made from outside the dispatchers
IsCall == last.op \in {"handle", "class", "static"}

\* the dispatcher runs of the call in progress
Runs == {i \in 1..Len(last.tr) : last.tr[i].via # "delete"}

\* the dispatcher runs the call itself and parent forwarding made (not the
\* MEMBER calls of handlers)
Chain == {i \in Runs : last.tr[i].via \in {"entry", "fwd"}}

GuardsOf(e) == ClassDef(reg, e.cls).guards

\* the matching rule in the words of the specification: enough access, the
\* same name, and the argument condition of the member kind (equality of
\* names and type tags is the language's, which ignores letter case)
SpecMatch(e, g) ==
    /\ e.acc >= g.lvl
    /\ SqfEq(e.m, g.name)
    /\ \/ SqfEq(e.arg.t, g.type)
       \/ SqfEq(g.type, "ANY")
       \/ g.kind # "fn" /\ e.arg = Nil

\* no guard of class c or of the parents it declares matches call e made
\* with access acc
RECURSIVE NoneMatches(_, _, _)
NoneMatches(c, e, acc) ==
    \/ c \notin ClassNames
    \/ /\ \A k \in 1..Len(ClassDef(reg, c).guards) :
             ~SpecMatch([e EXCEPT !.acc = acc], ClassDef(reg, c).guards[k])
       /\ ClassDef(reg, c).ext => NoneMatches(ClassDef(reg, c).parent, e, PROTECTED)

\* C1: a call made through an instance handle never runs the handler of a
\* Protected or Private member, of the instance's class or of an ancestor
\* reached by forwarding (stated for the handle calls of a plain script).
C1_HandleRunsPublicOnly ==
    (last.op = "handle" /\ last.scope = NilScope) =>
        \A i \in Chain : last.tr[i].hit # 0 => last.tr[i].lvl = PUBLIC

\* C2: a call on a class without a parent, for a member name whose guards in
\* that class all ask for more access than the requester has, returns absent
\* and changes no stored variable.
C2_DeniedCallIsAbsent ==
    (/\ IsCall
     /\ ~ClassDef(reg, last.cls).ext
     /\ \A k \in 1..Len(ClassDef(reg, last.cls).guards) :
           SqfEq(ClassDef(reg, last.cls).guards[k].name, last.m)
              => ClassDef(reg, last.cls).guards[k].lvl > last.acc)
    => (last.res = Nil /\ ~last.div /\ store = last.pre)

\* C3: in one class the guards are tried in declaration order and one
\* handler runs: when several guards match a call, the earliest declared of
\* them is the one that runs, also when it is an "ANY" guard declared ahead
\* of a more specific one.
C3_EarliestMatchRuns ==
    \A i \in Runs :
        \A k \in 1..Len(GuardsOf(last.tr[i])) :
            (/\ SpecMatch(last.tr[i], GuardsOf(last.tr[i])[k])
             /\ \A j \in 1..(k - 1) : ~SpecMatch(last.tr[i], GuardsOf(last.tr[i])[j]))
            => last.tr[i].hit = k

\* C3 happens: an "ANY" guard ran although a later guard with a concrete
\* type matched the same call
C3_Witness ==
    \E i \in Runs :
        /\ last.tr[i].hit # 0
        /\ GuardsOf(last.tr[i])[last.tr[i].hit].type = "ANY"
        /\ \E k \in (last.tr[i].hit + 1)..Len(GuardsOf(last.tr[i])) :
              /\ SpecMatch(last.tr[i], GuardsOf(last.tr[i])[k])
              /\ GuardsOf(last.tr[i])[k].type # "ANY"

\* C4: a call no guard of class C matches is forwarded to the parent C
\* declares, with the same identifier, member and argument and access 1
\* whatever the requester's access was; its result is the parent's, and it
\* is absent when no ancestor matches.
C4_ForwardingEndsInAbsence ==
    \A i \in Runs :
        (last.tr[i].hit = 0 /\ ClassDef(reg, last.tr[i].cls).ext /\ last.tr[i].m # "")
        => /\ i < Len(last.tr)
           /\ last.tr[i + 1].via = "fwd"
           /\ last.tr[i + 1].cls = ClassDef(reg, last.tr[i].cls).parent
           /\ last.tr[i + 1].id = last.tr[i].id
           /\ last.tr[i + 1].m = last.tr[i].m
           /\ last.tr[i + 1].arg = last.tr[i].arg
           /\ last.tr[i + 1].acc = PROTECTED
           /\ last.tr[i + 1].res = last.tr[i].res
           /\ \A j \in Chain : j > i /\ last.tr[j].hit # 0 => last.tr[j].lvl < PRIVATE
           /\ NoneMatches(ClassDef(reg, last.tr[i].cls).parent, last.tr[i], PROTECTED)
                 => (last.tr[i].res = Nil /\ ~last.tr[i].div)

----------------------------------------------------------------------------
(* Scripts that read and write variable members: instances of Child (the
   instance variable mp, the static variable tag of its parent) and of
   Counter (the static variable count, written by increment alone) *)

Args == {Nil, Str(1)} \cup {Num(n) : n \in 1..MaxVal}

NextVars ==
    \/ \E c \in {"Child", "Counter"} : New(c, Num(1), NilScope, MaxNew)
    \/ \E i \in 1..Len(handles), m \in {"mp", "tag", "dropMp", "increment"},
          a \in Args :
          CallHandle(i, m, a, NilScope)
    \/ \E i \in 1..Len(handles), c \in ClassNames, m \in {"mp", "tag"}, a \in Args :
          c \in Lineage(reg, handles[i].cls) /\ CallClass(c, i, m, a, PRIVATE, NilScope)
    \/ Return

SpecVars == Init /\ [][NextVars]_vars

\* what a method running on instance id reads from variable member v of
\* class c, in namespace st
ReadAs(st, id, c, v) ==
    Invoke(reg, st, Call(c, "entry", id, v, Nil, PRIVATE, NilScope), {}).res

\* the variable members of kind kd that class c declares
VarsOf(c, kd) ==
    {ClassDef(reg, c).guards[k].name :
        k \in {j \in 1..Len(ClassDef(reg, c).guards) :
                  ClassDef(reg, c).guards[j].kind = kd}}

\* C6: a call of a variable member with an absent argument returns the
\* argument of the most recent write to that variable of that instance (of
\* that class, for a static variable), absent when there was none, and a
\* call that only reads leaves every stored value as it was.
C6_ReadReturnsLastWrite ==
    /\ \A i \in Runs :
          IsRead(last.tr[i]) =>
              last.tr[i].res =
                  HistGet(Replay(last.hpre, SubSeq(last.tr, 1, i - 1)), Slot(last.tr[i]))
    /\ (IsCall /\ \A i \in 1..Len(last.tr) :
                      ~IsWrite(last.tr[i]) /\ last.tr[i].kind # "del")
          => store = last.pre

\* C6 happens: a read of an instance variable returned the second of two
\* different values written to it
C6_Witness ==
    \E i \in Runs :
        /\ IsRead(last.tr[i])
        /\ last.tr[i].kind = "var"
        /\ last.tr[i].res = Num(2)
        /\ store = last.pre

\* C7 as stated: the result of a write is the value written
C7_WriteReturnsValue ==
    \A i \in Runs : IsWrite(last.tr[i]) => last.tr[i].res = last.tr[i].arg

\* C7: a call of a variable member with a present argument of a matching
\* type stores the argument, so that the next read returns it, and the
\* call's own result is absent.
C7_WriteStoresAndReturnsAbsent ==
    /\ \A i \in Runs : IsWrite(last.tr[i]) => last.tr[i].res = Nil
    /\ (IsCall /\ Len(last.tr) = 1 /\ IsWrite(last.tr[1]))
          => ReadAs(store, last.id, last.cls, last.m) = last.arg

\* C7 happens: a script wrote a variable member directly
C7_Witness ==
    /\ IsCall
    /\ Len(last.tr) = 1
    /\ IsWrite(last.tr[1])
    /\ last.arg = Num(2)
    /\ last.pre # store

\* C8: a static variable has one value for all instances of its class: what
\* was written through one instance is what a method running on any other
\* instance reads; and with count written by increment alone, the k-th
\* increment returns k whichever instances it is called on.
C8_StaticIsShared ==
    /\ \A i \in Runs :
          (IsWrite(last.tr[i]) /\ last.tr[i].kind = "svar"
              /\ \A j \in Runs : j > i => ~IsWrite(last.tr[j]))
          => \A b \in 1..Len(handles) :
                last.tr[i].cls \in Lineage(reg, handles[b].cls)
                   => ReadAs(store, handles[b].id, last.tr[i].cls, last.tr[i].name)
                         = last.tr[i].arg
    /\ \A k \in 1..Len(incs) : incs[k].res = Num(k)

\* C8 happens: increment was called on A, on B and on A again
C8_Witness ==
    /\ Len(handles) = 2
    /\ handles[1].cls = "Counter" /\ handles[2].cls = "Counter"
    /\ handles[1].id # handles[2].id
    /\ Len(incs) = 3
    /\ incs[1].by = 1 /\ incs[2].by = 2 /\ incs[3].by = 1
    /\ incs[3].res = Num(3)

\* the call in progress wrote or deleted instance variables and wrote no
\* static variable
WroteInstanceOnly ==
    /\ last.op \in {"handle", "class"}
    /\ \E i \in 1..Len(last.tr) :
          (IsWrite(last.tr[i]) /\ last.tr[i].kind = "var") \/ last.tr[i].kind = "del"
    /\ \A i \in 1..Len(last.tr) : ~(IsWrite(last.tr[i]) /\ last.tr[i].kind = "svar")

\* C9: a write or a DELETE_VARIABLE of an instance variable on instance A
\* leaves what is read for every variable of any other instance B, and for
\* every static variable, as it was.
C9_InstancesAreIsolated ==
    WroteInstanceOnly =>
        /\ \A b \in 1..Len(handles) :
              handles[b].id # last.id =>
                  \A c \in Lineage(reg, handles[b].cls) :
                      \A v \in VarsOf(c, "var") :
                          ReadAs(store, handles[b].id, c, v)
                             = ReadAs(last.pre, handles[b].id, c, v)
        /\ \A c \in ClassNames :
              \A v \in VarsOf(c, "svar") :
                  ReadAs(store, last.id, c, v) = ReadAs(last.pre, last.id, c, v)

\* C9 happens: A's variable was written or deleted while B, of the same
\* class, and a static variable hold values
C9_Witness ==
    /\ WroteInstanceOnly
    /\ store # last.pre
    /\ \E b \in 1..Len(handles) :
          /\ handles[b].id # last.id
          /\ handles[b].cls = last.cls
          /\ ReadAs(store, handles[b].id, "Child", "mp") \notin {Nil, last.arg}
    /\ ReadAs(store, last.id, "Base", "tag") # Nil

----------------------------------------------------------------------------
(* Scripts that create and delete instances and register classes again; the
   counter of Counter starts fresh, or where earlier news have taken it *)

WarmCounts == {0, SixDigits - 1}

InitIds == InitWith(WarmCounts)

NextIds ==
    \/ \E c \in ClassNames, v \in 1..2 : v <= Len(Catalog[c]) /\ Register(c, v)
    \/ \E c \in ClassNames, a \in {Nil, Num(1)} : New(c, a, NilScope, MaxNew)
    \/ \E c \in ClassNames, i \in 1..Len(handles), a \in {Nil, Str(1)} :
          Delete(c, i, a, NilScope)
    \/ Return

SpecIds == InitIds /\ [][NextIds]_vars

\* C10: after any sequence of "new", "delete" and registrations, the
\* identifiers "new" has returned for one class are pairwise different.
C10_IdentifiersDiffer ==
    \A i, j \in 1..Len(handles) :
        (i # j /\ handles[i].cls = handles[j].cls) => handles[i].id # handles[j].id

----------------------------------------------------------------------------
(* Scripts that run side by side.  A spawned script runs in the scheduler,
   which may suspend it between two statements and run another script; it
   starts with no local variable of its spawner in sight.  The main script
   sets up instances first and spawns last. *)

\* no spawned script has started
NoneSpawned == \A t \in Tasks : tasks[t].pc = "idle"

\* [] spawn {["new", nil] call c}
SpawnNew(t, c) ==
    /\ last.op = "none"
    /\ tasks[t].pc = "idle"
    /\ tasks' = [tasks EXCEPT ![t] = [NoTask EXCEPT !.pc = "count", !.kind = "new",
                                                    !.cls = c]]
    /\ UNCHANGED <<reg, store, handles, last, hist, incs, deleted>>

\* "new", first statement: the counter of the class goes up by one
NewCount(t) ==
    /\ tasks[t].pc = "count"
    /\ store' = SetVar(store, AUTO_INC_VAR(tasks[t].cls),
                       Num(GET_AUTO_INC(store, tasks[t].cls) + 1))
    /\ tasks' = [tasks EXCEPT ![t].pc = "mint"]
    /\ UNCHANGED <<reg, handles, last, hist, incs, deleted>>

\* "new", the statements after it: the counter is read again to make the
\* identifier and the handle, the constructor is called through the handle,
\* the handle is returned
NewMint(t) ==
    /\ tasks[t].pc = "mint"
    /\ LET c == tasks[t].cls
           id == Format2(c, FormatNum(GET_AUTO_INC(store, c)))
           q == Call(c, "entry", id, "constructor", Nil, PUBLIC, NilScope)
           r == Invoke(reg, store, q, {})
       IN  /\ ~r.div
           /\ Bounded(r.st)
           /\ store' = r.st
           /\ hist' = Replay(hist, r.tr)
           /\ handles' = Append(handles, [cls |-> c, id |-> id])
           /\ tasks' = [tasks EXCEPT ![t].pc = "done", ![t].id = id, ![t].made = id]
    /\ UNCHANGED <<reg, last, incs, deleted>>

\* SPAWN_MEMBER(m, nil) in a method running on the instance of handle i, m a
\* method whose handler is {INC_VAR(ref)}: the dispatcher of the class runs
\* as a script of its own, up to the handler
SpawnMember(t, i, m) ==
    /\ last.op = "none"
    /\ tasks[t].pc = "idle"
    /\ LET h == handles[i]
           q == Call(h.cls, "member", h.id, m, Nil, PRIVATE, NilScope)
           k == FirstMatch(q, ClassDef(reg, h.cls).guards)
       IN  /\ k # 0
           /\ ClassDef(reg, h.cls).guards[k].body = "incvar"
           /\ tasks' = [tasks EXCEPT ![t] =
                            [NoTask EXCEPT !.pc = "read", !.kind = "inc",
                                           !.cls = h.cls, !.id = h.id,
                                           !.ref = ClassDef(reg, h.cls).guards[k].ref]]
    /\ UNCHANGED <<reg, store, handles, last, hist, incs, deleted>>

\* the call a script spawned on a member makes for MEMBER(ref, arg)
TaskMember(t, arg) ==
    Call(tasks[t].cls, "member", tasks[t].id, tasks[t].ref, arg, PRIVATE,
         ParentInScope(ClassDef(reg, tasks[t].cls), [scope |-> NilScope]))

\* MOD_VAR, the inner call: MEMBER(ref, nil)
ModRead(t) ==
    /\ tasks[t].pc = "read"
    /\ LET r == Invoke(reg, store, TaskMember(t, Nil), {})
       IN  /\ ~r.div
           /\ tasks' = [tasks EXCEPT
                  ![t].pc = "write",
                  ![t].rd = r.res,
                  ![t].lap = \E u \in Tasks \ {t} :
                                /\ tasks[u].pc = "write"
                                /\ tasks[u].cls = tasks[t].cls
                                /\ tasks[u].ref = tasks[t].ref]
    /\ UNCHANGED <<reg, store, handles, last, hist, incs, deleted>>

\* MOD_VAR, the outer call: MEMBER(ref, what was read + 1)
ModWrite(t) ==
    /\ tasks[t].pc = "write"
    /\ LET r == Invoke(reg, store, TaskMember(t, INC_VAR(tasks[t].rd)), {})
       IN  /\ ~r.div
           /\ Bounded(r.st)
           /\ store' = r.st
           /\ hist' = Replay(hist, r.tr)
           /\ tasks' = [tasks EXCEPT ![t].pc = "done"]
    /\ UNCHANGED <<reg, handles, last, incs, deleted>>

NextTasks ==
    \/ \E c \in {"Counter"} : NoneSpawned /\ New(c, Nil, NilScope, MaxNew)
    \/ \E i \in 1..Len(handles), m \in {"increment", "bump"} :
          NoneSpawned /\ CallHandle(i, m, Nil, NilScope)
    \/ Return
    \/ \E t \in Tasks, c \in {"Counter"} : SpawnNew(t, c)
    \/ \E t \in Tasks : NewCount(t)
    \/ \E t \in Tasks : NewMint(t)
    \/ \E t \in Tasks, i \in 1..Len(handles) : SpawnMember(t, i, "bump")
    \/ \E t \in Tasks : ModRead(t)
    \/ \E t \in Tasks : ModWrite(t)

SpecTasks == Init /\ [][NextTasks]_vars

\* C11: two "new" on one class that run as scripts side by side, each of
\* which may be suspended between counting up and reading the counter, return
\* instances with different identifiers.
C11_InterleavedIdentifiersDiffer ==
    \A t, u \in Tasks :
        (/\ t # u
         /\ tasks[t].kind = "new" /\ tasks[t].pc = "done"
         /\ tasks[u].kind = "new" /\ tasks[u].pc = "done"
         /\ tasks[t].cls = tasks[u].cls)
        => tasks[t].made # tasks[u].made

----------------------------------------------------------------------------
(* Scripts that use the control operations: they create an instance of
   Base, Child, Orphan or Loop while the classes are as first registered,
   call it, call "static" and "delete", and register Base again *)

CtlMembers ==
    {"act", "guarded", "secret", "hp", "tag", "getHp", "constructor", "nope", ""}

\* every class is as first registered
FirstDefs == \A c \in ClassNames : reg[c] = 1

NextCtl ==
    \/ \E v \in 1..2 : Register("Base", v)
    \/ \E c \in {"Base", "Child", "Orphan", "Loop"}, a \in {Num(1), Str(1)} :
          FirstDefs /\ New(c, a, NilScope, MaxObj)
    \/ \E i \in 1..Len(handles), a \in {Nil, Str(1)} :
          Delete(handles[i].cls, i, a, NilScope)
    \/ \E c \in {"Base", "Child"}, m \in CtlMembers, a \in TypeArgs :
          Static(c, m, a, NilScope)
    \/ \E i \in 1..Len(handles), m \in CtlMembers, a \in TypeArgs :
          CallHandle(i, m, a, NilScope)
    \/ \E c \in {"Base", "Orphan"}, m \in {"act", ""}, a \in TypeArgs :
          CallEmpty(c, m, a, NilScope)
    \/ Return

SpecCtl == Init /\ [][NextCtl]_vars

\* the guards the dispatcher registered under c has now
NowGuards(c) == Catalog[c][reg[c]].guards

C13_DeletedHandleIsDead ==
    (last.op = "handle" /\ last.by \in deleted) =>
        /\ last.res = Nil
        /\ \A i \in Runs : last.tr[i].hit = 0

\* C13: "delete" leaves the handle as it was: a later call through it is
\* dispatched with the instance's identifier like any other handle call, and
\* returns what the class's guards and the stored variables (those the
\* deconstructor removed being absent) make it return.
C13_DeletedHandleStillDispatches ==
    (last.op = "handle" /\ last.by \in deleted) =>
        /\ last.id = handles[last.by].id
        /\ last.tr[1].id = handles[last.by].id
        /\ last.tr[1].cls = handles[last.by].cls
        /\ last.tr[1].hit =
              RunChain([last EXCEPT !.acc = PUBLIC], NowGuards(last.tr[1].cls), 1)
        /\ \A i \in Runs :
              IsRead(last.tr[i]) =>
                  last.tr[i].res =
                      HistGet(Replay(last.hpre, SubSeq(last.tr, 1, i - 1)),
                              Slot(last.tr[i]))

\* C13 happens: after "delete" ran the deconstructor, which removed hp, a
\* method called through the same handle ran, and another one wrote hp anew
C13_Witness ==
    /\ last.op = "handle"
    /\ last.by \in deleted
    /\ last.tr[1].hit # 0
    /\ last.m = "constructor"
    /\ GetVar(last.pre, Format2(last.id, "hp")) = Nil
    /\ GetVar(store, Format2(last.id, "hp")) = last.arg
    /\ last.arg # Nil

\* C14: a call that matches no guard in the class or in any ancestor, a call
\* with an empty member name or an empty identifier, and a call forwarded to
\* a parent name that is not registered return absent, run no handler and
\* leave every stored variable and every per-class counter as it was.
C14_FailureIsAbsence ==
    (/\ IsCall
     /\ \/ last.m = ""
        \/ last.id = ""
        \/ NoneMatches(last.cls, last, last.acc))
    => /\ last.res = Nil
       /\ ~last.div
       /\ \A i \in Runs : last.tr[i].hit = 0
       /\ store = last.pre

\* the calls of the operation in progress that came from outside a dispatcher
Entries == {i \in 1..Len(last.tr) : last.tr[i].via = "entry"}

\* C15: "new" on class C mints the identifier, then dispatches "constructor"
\* with the init argument through the new handle (access level 0) exactly
\* once, and then returns the handle; the handle is returned and the counter
\* stays raised also when no constructor guard matches.  "delete" dispatches
\* "deconstructor" with the final argument through the handle given to it
\* (access level 0) exactly once and changes no storage itself.
C15_LifecycleOrder ==
    /\ last.op = "new" =>
          /\ GET_AUTO_INC(store, last.cls) = GET_AUTO_INC(last.pre, last.cls) + 1
          /\ last.made = Format2(last.cls, FormatNum(GET_AUTO_INC(store, last.cls)))
          /\ Entries = {1}
          /\ last.tr[1].cls = last.cls
          /\ last.tr[1].id = last.made
          /\ last.tr[1].m = "constructor"
          /\ last.tr[1].arg = last.arg
          /\ last.tr[1].acc = PUBLIC
          /\ ~last.div
          /\ Len(handles) > 0
          /\ handles[Len(handles)] = [cls |-> last.cls, id |-> last.made]
    /\ last.op = "delete" =>
          /\ Entries = {1}
          /\ last.tr[1].cls = handles[last.by].cls
          /\ last.tr[1].id = handles[last.by].id
          /\ last.tr[1].m = "deconstructor"
          /\ last.tr[1].arg = last.arg
          /\ last.tr[1].acc = PUBLIC
          /\ ~last.div
          /\ (\A i \in 1..Len(last.tr) :
                 ~IsWrite(last.tr[i]) /\ last.tr[i].kind # "del") => store = last.pre

\* C16: a class name is bound to the dispatcher registered last, and it is
\* looked up by name at every call: after a class, or the parent a class
\* names, is registered again, handles made before and forwarding from the
\* child classes dispatch to the new definition, never to the old one.
C16_LatestDefinitionRuns ==
    \A i \in Runs :
        (last.tr[i].cls \in ClassNames /\ last.tr[i].id # "" /\ last.tr[i].m # "")
        => /\ last.tr[i].hit = RunChain(last.tr[i], NowGuards(last.tr[i].cls), 1)
           /\ last.tr[i].hit # 0 =>
                 /\ NowGuards(last.tr[i].cls)[last.tr[i].hit].name = last.tr[i].name
                 /\ NowGuards(last.tr[i].cls)[last.tr[i].hit].kind = last.tr[i].kind
                 /\ NowGuards(last.tr[i].cls)[last.tr[i].hit].lvl = last.tr[i].lvl
           /\ (i < Len(last.tr) /\ last.tr[i + 1].via = "fwd" /\ last.tr[i].via # "delete"
                 /\ Catalog[last.tr[i].cls][reg[last.tr[i].cls]].ext)
              => last.tr[i + 1].cls = Catalog[last.tr[i].cls][reg[last.tr[i].cls]].parent

\* C16 happens: Base was registered again after the handle of a Child
\* instance was made; a call through the handle was forwarded to Base and ran
\* the guard the new Base has in a place where the old Base has another one
C16_Witness ==
    /\ last.op = "handle"
    /\ reg["Base"] = 2
    /\ handles[last.by].cls = "Child"
    /\ Len(last.tr) >= 2
    /\ last.tr[2].via = "fwd"
    /\ last.tr[2].cls = "Base"
    /\ last.tr[2].hit # 0
    /\ Catalog["Base"][2].guards[last.tr[2].hit].name = last.tr[2].name
    /\ Catalog["Base"][1].guards[last.tr[2].hit].name # last.tr[2].name

\* C17: dispatch always terminates: whatever classes are registered and
\* whatever parents they name (itself or a descendant included), a call that
\* matches no guard ends after finitely many forwarding steps, in absence.
C17_DispatchTerminates ==
    /\ ~last.div
    /\ \A i \in Runs : ~last.tr[i].div

----------------------------------------------------------------------------
(* Scripts that work on instances of Child and of Kid (Kid extends Child,
   Child extends Base): calls through the handles, and calls made the way
   the methods of a class of the lineage make them *)

KinArgs == {Nil, Num(1), Num(2), Str(1)}

NextKin ==
    \/ \E c \in {"Child", "Kid"} : New(c, Num(1), NilScope, MaxNew)
    \/ \E i \in 1..Len(handles), m \in {"mp", "hp", "tag", "getHp", "getTag"},
          a \in KinArgs :
          CallHandle(i, m, a, NilScope)
    \/ \E i \in 1..Len(handles), c \in ClassNames, m \in {"mp", "tag"}, a \in KinArgs :
          c \in Lineage(reg, handles[i].cls) /\ CallClass(c, i, m, a, PRIVATE, NilScope)
    \/ Return

SpecKin == Init /\ [][NextKin]_vars

\* the run of the method in which the MEMBER call of run i is written
Encloser(i) ==
    CHOOSE j \in 1..(i - 1) :
        /\ last.tr[j].kind = "fn" /\ last.tr[j].hit # 0
        /\ \A k \in (j + 1)..(i - 1) : ~(last.tr[k].kind = "fn" /\ last.tr[k].hit # 0)

\* the runs MEMBER call i and its forwarding made
RECURSIVE Reach(_)
Reach(i) ==
    IF i < Len(last.tr) /\ last.tr[i + 1].via = "fwd" /\ last.tr[i].via # "delete"
    THEN {i} \cup Reach(i + 1)
    ELSE {i}

\* C18: a MEMBER(m, arg) in a method declared in class P, running on an
\* instance of a child class C, starts dispatch at P with access level 2 and
\* the instance's identifier: it reaches the members of P at any level and
\* Public or Protected members of P's ancestors, and it runs no guard
\* declared in C, also when C declares a member named m.
C18_MemberStartsAtDeclaringClass ==
    \A i \in Runs :
        last.tr[i].via = "member" =>
            /\ last.tr[i].cls = last.tr[Encloser(i)].cls
            /\ last.tr[i].acc = PRIVATE
            /\ last.tr[i].id = last.id
            /\ \A k \in Reach(i) :
                  /\ last.tr[k].cls \in Lineage(reg, last.tr[Encloser(i)].cls)
                  /\ (k # i /\ last.tr[k].hit # 0) => last.tr[k].lvl <= PROTECTED
            /\ last.tr[i].hit =
                  RunChain([last.tr[i] EXCEPT !.acc = PRIVATE],
                           NowGuards(last.tr[Encloser(i)].cls), 1)

\* C18 happens: on an instance of Kid, which declares a Public variable hp,
\* getHp of Base ran and its MEMBER("hp", nil) ran the Private hp of Base
C18_Witness ==
    /\ last.op = "handle"
    /\ handles[last.by].cls = "Kid"
    /\ "hp" \in VarsOf("Kid", "var")
    /\ \E i \in Runs :
          /\ last.tr[i].via = "member"
          /\ last.tr[i].cls = "Base"
          /\ last.tr[i].name = "hp"
          /\ last.tr[i].lvl = PRIVATE
          /\ last.tr[i].res # Nil

\* run i made the last write of the call in progress to its variable
LastWrite(i) ==
    /\ IsWrite(last.tr[i])
    /\ \A j \in (i + 1)..Len(last.tr) :
          ~((IsWrite(last.tr[j]) \/ last.tr[j].kind = "del")
               /\ Slot(last.tr[j]) = Slot(last.tr[i]))

\* C19: an instance variable declared in parent P and reached from an
\* instance of child C is stored under the identifier of the C instance:
\* every other instance keeps its own value, and P's own methods read the
\* same value from it; a static variable declared in P is stored under P's
\* name and is one value for all instances of P and of the classes that
\* inherit from P.
C19_StorageOwners ==
    \A i \in Runs :
        LastWrite(i) =>
            IF last.tr[i].kind = "var"
            THEN /\ last.tr[i].id = last.id
                 /\ GetVar(store, Format2(last.id, last.tr[i].name)) = last.tr[i].arg
                 /\ ReadAs(store, last.id, last.tr[i].cls, last.tr[i].name)
                       = last.tr[i].arg
                 /\ \A b \in 1..Len(handles) :
                       handles[b].id # last.id =>
                           GetVar(store, Format2(handles[b].id, last.tr[i].name))
                              = GetVar(last.pre, Format2(handles[b].id, last.tr[i].name))
            ELSE /\ GetVar(store, Format2(last.tr[i].cls, last.tr[i].name))
                       = last.tr[i].arg
                 /\ last.tr[i].name \in VarsOf(last.tr[i].cls, "svar")
                 /\ \A b \in 1..Len(handles) :
                       last.tr[i].cls \in Lineage(reg, handles[b].cls) =>
                           ReadAs(store, handles[b].id, last.tr[i].cls, last.tr[i].name)
                              = last.tr[i].arg

\* C19 happens: mp, declared in Child, was written through the handle of a
\* Kid instance by forwarding, while another Kid instance holds another
\* value of mp and tag, declared in Base, holds a value
C19_Witness ==
    /\ last.op = "handle"
    /\ handles[last.by].cls = "Kid"
    /\ Len(last.tr) = 2
    /\ last.tr[2].via = "fwd"
    /\ last.tr[2].cls = "Child"
    /\ IsWrite(last.tr[2])
    /\ GetVar(store, Format2(last.id, "mp")) = last.arg
    /\ \E b \in 1..Len(handles) :
          /\ handles[b].cls = "Kid"
          /\ handles[b].id # last.id
          /\ GetVar(store, Format2(handles[b].id, "mp")) \notin {Nil, last.arg}
    /\ GetVar(store, "Base_tag") # Nil

\* both spawned scripts have run INC_VAR on the same variable to its end,
\* each having read a number
BothIncremented(t, u) ==
    /\ t # u
    /\ tasks[t].kind = "inc" /\ tasks[t].pc = "done"
    /\ tasks[u].kind = "inc" /\ tasks[u].pc = "done"
    /\ tasks[t].cls = tasks[u].cls /\ tasks[t].ref = tasks[u].ref
    /\ tasks[t].rd.t = "SCALAR" /\ tasks[u].rd.t = "SCALAR"

\* the value the variable had when the first of the two scripts read it
Before(t, u) ==
    IF tasks[t].rd.v <= tasks[u].rd.v THEN tasks[t].rd.v ELSE tasks[u].rd.v

\* C20: INC_VAR is a read followed by a separate write of what was read plus
\* 1: when two scripts run it on the same variable and one reads while the
\* other stands between its read and its write, the variable ends 1 above
\* its value before (an update is lost); when they do not interleave it ends
\* 2 above.
C20_ModVarIsReadThenWrite ==
    \A t, u \in Tasks :
        BothIncremented(t, u) =>
            ReadAs(store, tasks[t].id, tasks[t].cls, tasks[t].ref)
               = Num(Before(t, u) + (IF tasks[t].lap \/ tasks[u].lap THEN 1 ELSE 2))

\* C20 happens: two scripts have run INC_VAR on count, both read the same
\* number, and count has grown by 1
C20_Witness ==
    \E t, u \in Tasks :
        /\ BothIncremented(t, u)
        /\ tasks[t].rd = tasks[u].rd
        /\ ReadAs(store, tasks[t].id, tasks[t].cls, tasks[t].ref)
              = Num(tasks[t].rd.v + 1)

====
